---- MODULE Spec2Model ----
(***************************************************************************)
(* Model of books_app.py: one Streamlit script run after another over the  *)
(* read-only table books_wh_tbl.  A run is main() inside the __main__      *)
(* block: page set-up, connection, the two filter select boxes, the count  *)
(* query, the dispatch on the count and one of the three renderers.        *)
(* Prices are integers (hundredths of the currency unit).                  *)
(***************************************************************************)
EXTENDS Integers, Sequences, FiniteSets, TLC

\* ------------------------------------------------------------------ bounds
\* longest table of the family with arbitrary rows
MaxRows == 2
\* prices of the arbitrary rows are 1..MaxPrice
MaxPrice == 3
\* longest table of the one-pair family (exceeds the display quantities 5, 10)
MaxLong == 11

\* ------------------------------------------------------------- plain values
\* Python's None / a SQL NULL
None == -1
\* a local name that was never assigned
Unbound == -2

AvailabilityValues == {3, 14}
StarsValues == {4, 5}

Min(a, b) == IF a <= b THEN a ELSE b

Range(s) == {s[i] : i \in 1..Len(s)}

RECURSIVE InOrder(_, _, _)
\* the members of the set S of row numbers among i..n, in increasing order:
\* the rows of a result in the order of the table scan
InOrder(S, i, n) ==
    IF i > n THEN <<>>
    ELSE (IF i \in S THEN <<i>> ELSE <<>>) \o InOrder(S, i + 1, n)

\* ---------------------------------------------------------------- the table
BookRecords == [availability : AvailabilityValues, stars : StarsValues,
                price : 1..MaxPrice]

ShortTables == UNION {[1..n -> BookRecords] : n \in 1..MaxRows}

\* n rows of one (availability, stars) pair, the first k priced 1, the rest 2
LongTable(n, k) ==
    [i \in 1..n |-> [availability |-> 3, stars |-> 4,
                     price |-> IF i <= k THEN 1 ELSE 2]]

LongTables == UNION {{LongTable(n, k) : k \in 0..n} : n \in (MaxRows + 1)..MaxLong}

Tables == ShortTables \cup LongTables

\* ------------------------------------------------- f-string and SQL literal
DigitChars == <<"0", "1", "2", "3", "4", "5", "6", "7", "8", "9">>

RECURSIVE Str(_)
\* f"{v}" of a non-negative int, of None, of anything else
Str(v) ==
    IF v = None THEN <<"N", "o", "n", "e">>
    ELSE IF v < 0 THEN <<"?">>
    ELSE IF v < 10 THEN <<DigitChars[v + 1]>>
    ELSE Str(v \div 10) \o <<DigitChars[(v % 10) + 1]>>

IsDigit(c) == \E d \in 1..10 : DigitChars[d] = c

DigitValue(c) == (CHOOSE d \in 1..10 : DigitChars[d] = c) - 1

RECURSIVE CastInt(_)
\* the store's cast of the quoted literal '...' to the column's numeric type;
\* None where the text is no number
CastInt(s) ==
    IF s = <<>> \/ \E i \in 1..Len(s) : ~IsDigit(s[i]) THEN None
    ELSE IF Len(s) = 1 THEN DigitValue(s[1])
    ELSE 10 * CastInt(SubSeq(s, 1, Len(s) - 1)) + DigitValue(s[Len(s)])

\* column = '{v}'
SqlEq(column, v) ==
    LET lit == CastInt(Str(v)) IN lit # None /\ column = lit

\* column BETWEEN '{lo}' AND '{hi}'
SqlBetween(column, lo, hi) ==
    LET l == CastInt(Str(lo))
        h == CastInt(Str(hi))
    IN  l # None /\ h # None /\ l <= column /\ column <= h

\* ------------------------------------------------------------------ queries
\* SELECT DISTINCT availability FROM books_wh_tbl ORDER BY 1
DistinctAvailability(t) == {t[i].availability : i \in 1..Len(t)}

\* SELECT DISTINCT stars FROM books_wh_tbl ORDER BY 1
DistinctStars(t) == {t[i].stars : i \in 1..Len(t)}

\* WHERE availability = '{a}' AND stars = '{s}'
WhereFilters(r, a, s) == SqlEq(r.availability, a) /\ SqlEq(r.stars, s)

\* a mutation of CountMatched: the stars predicate is dropped
CountMatchedAvailabilityOnly(t, a, s) ==
    Cardinality({i \in 1..Len(t) : SqlEq(t[i].availability, a)})

\* get_number_of_matched_books: SELECT COUNT(*) ... WHERE availability, stars
CountMatched(t, a, s) ==
    Cardinality({i \in 1..Len(t) : WhereFilters(t[i], a, s)})

\* render_single_result: SELECT * ... WHERE availability, stars
SingleQuery(t, a, s) == InOrder({i \in 1..Len(t) : WhereFilters(t[i], a, s)}, 1, Len(t))

RECURSIVE MinPrice(_, _)
MinPrice(t, idx) ==
    IF idx = <<>> THEN None
    ELSE LET m == MinPrice(t, Tail(idx))
             p == t[Head(idx)].price
         IN  IF m = None \/ p < m THEN p ELSE m

RECURSIVE MaxPriceOf(_, _)
MaxPriceOf(t, idx) ==
    IF idx = <<>> THEN None
    ELSE LET m == MaxPriceOf(t, Tail(idx))
             p == t[Head(idx)].price
         IN  IF m = None \/ p > m THEN p ELSE m

\* determine_price_range: SELECT min(price), max(price) ... WHERE availability, stars
PriceRange(t, a, s) ==
    LET idx == InOrder({i \in 1..Len(t) : WhereFilters(t[i], a, s)}, 1, Len(t))
    IN  <<MinPrice(t, idx), MaxPriceOf(t, idx)>>

\* matched_results_dataframe: SELECT * ... WHERE availability, stars, price BETWEEN
MatchedQuery(t, a, s, lo, hi) ==
    InOrder({i \in 1..Len(t) : WhereFilters(t[i], a, s) /\ SqlBetween(t[i].price, lo, hi)},
            1, Len(t))

RECURSIVE SumPrice(_, _)
SumPrice(t, idx) ==
    IF idx = <<>> THEN 0 ELSE t[Head(idx)].price + SumPrice(t, Tail(idx))

\* ROUND(x, 2) of x = total / n: the nearest hundredth; at an exact tie the
\* double that AVG returns may lie on either side, so both neighbours
Round2(total, n) ==
    {c \in 0..(total + 1) : 2 * (IF n * c >= total THEN n * c - total ELSE total - n * c) <= n}

\* a mutation of AvgQuery: the average is taken without the price predicate
AvgQueryNoPrice(t, a, s, lo, hi) ==
    LET idx == InOrder({i \in 1..Len(t) : WhereFilters(t[i], a, s)}, 1, Len(t))
    IN  IF idx = <<>> THEN {None} ELSE Round2(SumPrice(t, idx), Len(idx))

\* avg_price_from_db: SELECT ROUND(AVG(price), 2) ... WHERE availability, stars,
\* price BETWEEN; the values fetchone()[0] can be
AvgQuery(t, a, s, lo, hi) ==
    LET idx == InOrder({i \in 1..Len(t) : WhereFilters(t[i], a, s) /\ SqlBetween(t[i].price, lo, hi)},
            1, Len(t))
    IN  IF idx = <<>> THEN {None} ELSE Round2(SumPrice(t, idx), Len(idx))

\* ------------------------------------------------------------- the widgets
\* st.slider raises for a range it cannot draw: a bound that is no number, or
\* a minimum that is not less than the maximum (the message of the handler)
SliderRaises(lo, hi) == lo = None \/ hi = None \/ lo >= hi

\* the (min, max) pairs a range slider over lo..hi can return
SliderValues(lo, hi) == {v \in (lo..hi) \X (lo..hi) : v[1] <= v[2]}

\* a mutation of SliderReturn: the unassigned names are returned as they are
SliderReturnUnchecked(smin, smax) == "none"

\* return slider_price_min, slider_price_max: reading a name the failed
\* assignment never bound raises UnboundLocalError
SliderReturn(smin, smax) ==
    IF smin = Unbound \/ smax = Unbound THEN "UnboundLocalError" ELSE "none"

QuantityOptions == {"All", "1", "5", "10", "None"}

\* form_options = {"All": matched_results_count, 1: 1, 5: 5, 10: 10, "None": 0}
FormOptions(count) ==
    [o \in QuantityOptions |->
        CASE o = "All" -> count [] o = "1" -> 1 [] o = "5" -> 5
          [] o = "10" -> 10 [] o = "None" -> 0]

\* df.index = range(1, len(df) + 1): the frame as (index, row number) pairs
Reindex(rows) == [k \in 1..Len(rows) |-> [index |-> k, row |-> rows[k]]]

\* a mutation of DataframeHead: one row too many
DataframeHeadOffByOne(frame, n) == SubSeq(frame, 1, Min(n + 1, Len(frame)))

\* df.head(n), n >= 0
DataframeHead(frame, n) == SubSeq(frame, 1, Min(n, Len(frame)))

\* ------------------------------------------------------------- the dispatch
\* a mutation of LookupKey: the count is used as the key
LookupKeyUnclamped(n) == n

\* min(2, number_of_found_results)
LookupKey(n) == Min(2, n)

\* a mutation of FunctionLookup: key 0 is wired to the renderer of key 2
FunctionLookupNoNull ==
    [k \in {0, 1, 2} |->
        CASE k = 0 -> "render_results_gte_2" [] k = 1 -> "render_single_result"
          [] k = 2 -> "render_results_gte_2"]

\* function_lookup = {0: render_null_result, 1: ..., 2: ...}
FunctionLookup ==
    [k \in {0, 1, 2} |->
        CASE k = 0 -> "render_null_result" [] k = 1 -> "render_single_result"
          [] k = 2 -> "render_results_gte_2"]

\* where each renderer starts
Entry(renderer) ==
    CASE renderer = "render_null_result" -> "render_null"
      [] renderer = "render_single_result" -> "render_single"
      [] renderer = "render_results_gte_2" -> "determine_price_range"

\* a mutation of ConnectionsAfterWith: the connection is closed only when the
\* block ends normally
ConnectionsAfterWithLeak(n, e) == IF e = "none" THEN n - 1 ELSE n

\* the end of "with duckdb.connect(...) as con": __exit__ closes the connection
\* whether or not an exception e is leaving the block
ConnectionsAfterWith(n, e) == n - 1

\* -------------------------------------------------------------------- state
VARIABLES
    table,                      \* books_wh_tbl, a sequence of book records
    pc,                         \* where the run is
    exc,                        \* the exception in flight, "none" if none
    open_cons,                  \* connections to the store that are open
    availability, stars,        \* the select boxes' values
    number_of_found_results,
    price_lower_bound, price_upper_bound,
    slider_price_min, slider_price_max,
    matched_results,            \* the result frame, as row numbers of table
    selected_quantity, quantity,
    displayed,                  \* the frame on the page, (index, row) pairs
    avg_price,
    page,                       \* what the run has put on the page, in order
    log,                        \* logging.error calls of the run, in order
    queries,                    \* queries the run has executed, in order
    called,                     \* renderers main() has invoked in the run
    raised,                     \* where exceptions were raised in the run
    prev                        \* the previous run's selection and renderer

run_vars == <<exc, availability, stars, number_of_found_results,
              price_lower_bound, price_upper_bound, slider_price_min,
              slider_price_max, matched_results, selected_quantity, quantity,
              displayed, avg_price, page, log, queries, called, raised>>

vars == <<table, pc, open_cons, prev, run_vars>>

NoPrev == [availability |-> None, stars |-> None, renderer |-> "none"]

Query(name, lo, hi) == [q |-> name, lo |-> lo, hi |-> hi]

Init ==
    /\ table \in Tables
    /\ pc = "idle"
    /\ open_cons = 0
    /\ prev = NoPrev
    /\ exc = "none"
    /\ availability = None /\ stars = None
    /\ number_of_found_results = None
    /\ price_lower_bound = Unbound /\ price_upper_bound = Unbound
    /\ slider_price_min = Unbound /\ slider_price_max = Unbound
    /\ matched_results = <<>>
    /\ selected_quantity = "unset" /\ quantity = None
    /\ displayed = <<>>
    /\ avg_price = Unbound
    /\ page = <<>> /\ log = <<>> /\ queries = <<>>
    /\ called = <<>> /\ raised = <<>>

\* ------------------------------------------------------------------ the run
\* A widget change reruns the script from the top: main() begins with
\* set_page_config() and set_expander_about_source(), outside its try block.
SetPage ==
    /\ pc \in {"idle", "done"}
    /\ prev' = IF called # <<>>
               THEN [availability |-> availability, stars |-> stars,
                     renderer |-> called[1]]
               ELSE prev
    /\ availability' = None /\ stars' = None
    /\ number_of_found_results' = None
    /\ price_lower_bound' = Unbound /\ price_upper_bound' = Unbound
    /\ slider_price_min' = Unbound /\ slider_price_max' = Unbound
    /\ matched_results' = <<>>
    /\ selected_quantity' = "unset" /\ quantity' = None
    /\ displayed' = <<>>
    /\ avg_price' = Unbound
    /\ log' = <<>> /\ queries' = <<>> /\ called' = <<>>
    /\ \/ /\ page' = <<"title", "expander">>
          /\ exc' = "none" /\ raised' = <<>>
          /\ pc' = "connect"
       \/ /\ page' = <<>>
          /\ exc' = "Exception" /\ raised' = <<"set_page_config">>
          /\ pc' = "top_level"
    /\ UNCHANGED <<table, open_cons>>

\* with duckdb.connect("books_wh.duckdb") as con
Connect ==
    /\ pc = "connect"
    /\ \/ /\ open_cons' = open_cons + 1
          /\ pc' = "select_filters"
          /\ UNCHANGED <<exc, raised>>
       \/ /\ \E e \in {"FileNotFoundError", "Exception"} : exc' = e
          /\ raised' = Append(raised, "connect")
          /\ pc' = "main_except"
          /\ UNCHANGED open_cons
    /\ UNCHANGED <<table, prev, availability, stars, number_of_found_results,
                   price_lower_bound, price_upper_bound, slider_price_min,
                   slider_price_max, matched_results, selected_quantity,
                   quantity, displayed, avg_price, page, log, queries, called>>

\* select_availability_and_stars_filters: two DISTINCT queries, two select boxes
SelectFilters ==
    /\ pc = "select_filters"
    /\ \/ /\ \E a \in DistinctAvailability(table), s \in DistinctStars(table) :
                /\ availability' = a
                /\ stars' = s
          /\ queries' = queries \o <<Query("distinct_availability", None, None),
                                     Query("distinct_stars", None, None)>>
          /\ page' = Append(page, "filters")
          /\ pc' = "count"
          /\ UNCHANGED <<exc, raised>>
       \/ /\ queries' = Append(queries, Query("distinct_availability", None, None))
          /\ page' = Append(page, "filters")
          /\ exc' = "Exception"
          /\ raised' = Append(raised, "select_filters")
          /\ pc' = "with_exit"
          /\ UNCHANGED <<availability, stars>>
    /\ UNCHANGED <<table, prev, open_cons, number_of_found_results,
                   price_lower_bound, price_upper_bound, slider_price_min,
                   slider_price_max, matched_results, selected_quantity,
                   quantity, displayed, avg_price, log, called>>

\* number_of_found_results = get_number_of_matched_books(con, availability, stars)
GetNumberOfMatchedBooks ==
    /\ pc = "count"
    /\ queries' = Append(queries, Query("count", None, None))
    /\ \/ /\ number_of_found_results' = CountMatched(table, availability, stars)
          /\ pc' = "dispatch"
          /\ UNCHANGED <<exc, raised>>
       \/ /\ exc' = "Exception"
          /\ raised' = Append(raised, "count")
          /\ pc' = "count_except"
          /\ UNCHANGED number_of_found_results
    /\ UNCHANGED <<table, prev, open_cons, availability, stars,
                   price_lower_bound, price_upper_bound, slider_price_min,
                   slider_price_max, matched_results, selected_quantity,
                   quantity, displayed, avg_price, page, log, called>>

\* the handler of the count query: log, subheader, st.error, raise e
CountExcept ==
    /\ pc = "count_except"
    /\ log' = Append(log, "count_except")
    /\ page' = page \o <<"count_failed_subheader", "count_error">>
    /\ pc' = "with_exit"
    /\ UNCHANGED <<table, prev, open_cons, exc, availability, stars,
                   number_of_found_results, price_lower_bound,
                   price_upper_bound, slider_price_min, slider_price_max,
                   matched_results, selected_quantity, quantity, displayed,
                   avg_price, queries, called, raised>>

\* function_lookup[min(2, number_of_found_results)]()
Dispatch ==
    /\ pc = "dispatch"
    /\ LET key == LookupKey(number_of_found_results)
       IN  IF key \in DOMAIN FunctionLookup
           THEN /\ called' = Append(called, FunctionLookup[key])
                /\ pc' = Entry(FunctionLookup[key])
                /\ UNCHANGED <<exc, raised>>
           ELSE /\ exc' = "KeyError"
                /\ raised' = Append(raised, "dispatch")
                /\ pc' = "with_exit"
                /\ UNCHANGED called
    /\ UNCHANGED <<table, prev, open_cons, availability, stars,
                   number_of_found_results, price_lower_bound,
                   price_upper_bound, slider_price_min, slider_price_max,
                   matched_results, selected_quantity, quantity, displayed,
                   avg_price, page, log, queries>>

\* render_null_result
RenderNullResult ==
    /\ pc = "render_null"
    /\ page' = Append(page, "no_matching_results")
    /\ pc' = "with_exit"
    /\ UNCHANGED <<table, prev, open_cons, exc, availability, stars,
                   number_of_found_results, price_lower_bound,
                   price_upper_bound, slider_price_min, slider_price_max,
                   matched_results, selected_quantity, quantity, displayed,
                   avg_price, log, queries, called, raised>>

\* render_single_result
RenderSingleResult ==
    /\ pc = "render_single"
    /\ queries' = Append(queries, Query("single", None, None))
    /\ \/ /\ displayed' = Reindex(SingleQuery(table, availability, stars))
          /\ page' = page \o <<"single_header", "single_table">>
          /\ UNCHANGED <<exc, raised>>
       \/ /\ page' = Append(page, "single_header")
          /\ exc' = "Exception"
          /\ raised' = Append(raised, "render_single_result")
          /\ UNCHANGED displayed
    /\ pc' = "with_exit"
    /\ UNCHANGED <<table, prev, open_cons, availability, stars,
                   number_of_found_results, price_lower_bound,
                   price_upper_bound, slider_price_min, slider_price_max,
                   matched_results, selected_quantity, quantity, avg_price,
                   log, called>>

\* render_results_gte_2, first statement: determine_price_range
DeterminePriceRange ==
    /\ pc = "determine_price_range"
    /\ queries' = Append(queries, Query("price_range", None, None))
    /\ \/ /\ price_lower_bound' = PriceRange(table, availability, stars)[1]
          /\ price_upper_bound' = PriceRange(table, availability, stars)[2]
          /\ pc' = "select_price_range_slider"
          /\ UNCHANGED <<exc, raised>>
       \/ /\ exc' = "Exception"
          /\ raised' = Append(raised, "render_results_gte_2")
          /\ pc' = "with_exit"
          /\ UNCHANGED <<price_lower_bound, price_upper_bound>>
    /\ UNCHANGED <<table, prev, open_cons, availability, stars,
                   number_of_found_results, slider_price_min, slider_price_max,
                   matched_results, selected_quantity, quantity, displayed,
                   avg_price, page, log, called>>

\* select_price_range_slider: the slider inside try, the handler that logs and
\* shows st.error, then the return of the two names
SelectPriceRangeSlider ==
    /\ pc = "select_price_range_slider"
    /\ IF SliderRaises(price_lower_bound, price_upper_bound)
       THEN /\ log' = Append(log, "slider_except")
            /\ page' = Append(page, "invalid_price_range_error")
            /\ raised' = Append(raised, "st.slider") \o
                  (IF SliderReturn(slider_price_min, slider_price_max) = "none"
                   THEN <<>> ELSE <<"select_price_range_slider">>)
            /\ exc' = SliderReturn(slider_price_min, slider_price_max)
            /\ pc' = IF SliderReturn(slider_price_min, slider_price_max) = "none"
                     THEN "matched_results_dataframe" ELSE "with_exit"
            /\ UNCHANGED <<slider_price_min, slider_price_max>>
       ELSE /\ \E v \in SliderValues(price_lower_bound, price_upper_bound) :
                  /\ slider_price_min' = v[1]
                  /\ slider_price_max' = v[2]
                  /\ exc' = SliderReturn(v[1], v[2])
            /\ pc' = "matched_results_dataframe"
            /\ UNCHANGED <<log, page, raised>>
    /\ UNCHANGED <<table, prev, open_cons, availability, stars,
                   number_of_found_results, price_lower_bound,
                   price_upper_bound, matched_results, selected_quantity,
                   quantity, displayed, avg_price, queries, called>>

\* the totals text, matched_results_dataframe and the "N Book(s) Found" header
MatchedResultsDataframe ==
    /\ pc = "matched_results_dataframe"
    /\ queries' = Append(queries, Query("matched", slider_price_min, slider_price_max))
    /\ \/ /\ matched_results' = MatchedQuery(table, availability, stars,
                                             slider_price_min, slider_price_max)
          /\ page' = page \o <<"totals", "count_header">>
          /\ pc' = "display_quantity"
          /\ UNCHANGED <<exc, raised>>
       \/ /\ page' = Append(page, "totals")
          /\ exc' = "Exception"
          /\ raised' = Append(raised, "render_results_gte_2")
          /\ pc' = "with_exit"
          /\ UNCHANGED matched_results
    /\ UNCHANGED <<table, prev, open_cons, availability, stars,
                   number_of_found_results, price_lower_bound,
                   price_upper_bound, slider_price_min, slider_price_max,
                   selected_quantity, quantity, displayed, avg_price, log,
                   called>>

\* the display-quantity radio, the 1-based index and st.dataframe(head(quantity))
DisplayQuantity ==
    /\ pc = "display_quantity"
    /\ \E o \in QuantityOptions :
          /\ selected_quantity' = o
          /\ quantity' = FormOptions(Len(matched_results))[o]
          /\ displayed' = DataframeHead(Reindex(matched_results),
                                        FormOptions(Len(matched_results))[o])
    /\ page' = page \o <<"quantity_form", "results_table">>
    /\ pc' = "avg_price_from_db"
    /\ UNCHANGED <<table, prev, open_cons, exc, availability, stars,
                   number_of_found_results, price_lower_bound,
                   price_upper_bound, slider_price_min, slider_price_max,
                   matched_results, avg_price, log, queries, called, raised>>

\* avg_price_from_db and st.metric
AvgPriceFromDb ==
    /\ pc = "avg_price_from_db"
    /\ queries' = Append(queries, Query("avg", slider_price_min, slider_price_max))
    /\ \/ /\ avg_price' \in AvgQuery(table, availability, stars,
                                     slider_price_min, slider_price_max)
          /\ page' = page \o <<"avg_header", "avg_metric">>
          /\ pc' = "plot_results"
          /\ UNCHANGED <<exc, raised>>
       \/ /\ page' = Append(page, "avg_header")
          /\ exc' = "Exception"
          /\ raised' = Append(raised, "render_results_gte_2")
          /\ pc' = "with_exit"
          /\ UNCHANGED avg_price
    /\ UNCHANGED <<table, prev, open_cons, availability, stars,
                   number_of_found_results, price_lower_bound,
                   price_upper_bound, slider_price_min, slider_price_max,
                   matched_results, selected_quantity, quantity, displayed,
                   log, called>>

\* plot_results: the histogram of the matched prices
PlotResults ==
    /\ pc = "plot_results"
    /\ page' = Append(page, "histogram")
    /\ pc' = "with_exit"
    /\ UNCHANGED <<table, prev, open_cons, exc, availability, stars,
                   number_of_found_results, price_lower_bound,
                   price_upper_bound, slider_price_min, slider_price_max,
                   matched_results, selected_quantity, quantity, displayed,
                   avg_price, log, queries, called, raised>>

\* leaving the with block, normally or with an exception in flight
WithExit ==
    /\ pc = "with_exit"
    /\ open_cons' = ConnectionsAfterWith(open_cons, exc)
    /\ pc' = IF exc = "none" THEN "main_return" ELSE "main_except"
    /\ UNCHANGED <<table, prev, run_vars>>

\* main()'s handlers: except FileNotFoundError / except Exception, both only log
MainExcept ==
    /\ pc = "main_except"
    /\ \/ /\ exc = "FileNotFoundError"
          /\ log' = Append(log, "main_file_not_found")
       \/ /\ exc # "FileNotFoundError"
          /\ log' = Append(log, "main_except")
    /\ exc' = "none"
    /\ pc' = "main_return"
    /\ UNCHANGED <<table, prev, open_cons, availability, stars,
                   number_of_found_results, price_lower_bound,
                   price_upper_bound, slider_price_min, slider_price_max,
                   matched_results, selected_quantity, quantity, displayed,
                   avg_price, page, queries, called, raised>>

\* the __main__ block after main() returned: the running time is written
ScriptEnd ==
    /\ pc = "main_return"
    /\ page' = Append(page, "running_time")
    /\ pc' = "done"
    /\ UNCHANGED <<table, prev, open_cons, exc, availability, stars,
                   number_of_found_results, price_lower_bound,
                   price_upper_bound, slider_price_min, slider_price_max,
                   matched_results, selected_quantity, quantity, displayed,
                   avg_price, log, queries, called, raised>>

\* the __main__ block's handler, for an exception that left main(): log,
\* st.error(e), raise e (the run ends with the exception)
TopLevelExcept ==
    /\ pc = "top_level"
    /\ log' = Append(log, "top_level_except")
    /\ page' = Append(page, "top_level_error")
    /\ pc' = "done"
    /\ UNCHANGED <<table, prev, open_cons, exc, availability, stars,
                   number_of_found_results, price_lower_bound,
                   price_upper_bound, slider_price_min, slider_price_max,
                   matched_results, selected_quantity, quantity, displayed,
                   avg_price, queries, called, raised>>

Next ==
    \/ SetPage
    \/ Connect
    \/ SelectFilters
    \/ GetNumberOfMatchedBooks
    \/ CountExcept
    \/ Dispatch
    \/ RenderNullResult
    \/ RenderSingleResult
    \/ DeterminePriceRange
    \/ SelectPriceRangeSlider
    \/ MatchedResultsDataframe
    \/ DisplayQuantity
    \/ AvgPriceFromDb
    \/ PlotResults
    \/ WithExit
    \/ MainExcept
    \/ ScriptEnd
    \/ TopLevelExcept

Spec == Init /\ [][Next]_vars

\* ---------------------------------------------------------------- properties
\* the rows of the table with the selected availability and stars
PairRows == {i \in 1..Len(table) :
                table[i].availability = availability /\ table[i].stars = stars}

\* the rows satisfying all three predicates for the range lo..hi
FilteredRows(lo, hi) == {i \in PairRows : lo <= table[i].price /\ table[i].price <= hi}

RECURSIVE TotalPrice(_)
TotalPrice(S) ==
    IF S = {} THEN 0
    ELSE LET i == CHOOSE j \in S : TRUE IN table[i].price + TotalPrice(S \ {i})

\* the renderer of the bucket (EMPTY, SINGLE, MANY) of a cardinality
RendererOfCount(n) ==
    IF n = 0 THEN "render_null_result"
    ELSE IF n = 1 THEN "render_single_result" ELSE "render_results_gte_2"

Raised(where) == where \in Range(raised)

OnPage(what) == what \in Range(page)

\* nothing failed in the run except, possibly, the slider
NoOutsideFailure ==
    Range(raised) \subseteq {"st.slider", "select_price_range_slider"}

SliderChosen == slider_price_min # Unbound /\ slider_price_max # Unbound

\* C1 (as claimed): the count main() dispatches on is the number of rows that
\* satisfy availability, stars and the selected price range, and the renderer
\* is the one of that cardinality's bucket.
C1_CountIsThreePredicateCount ==
    (called # <<>> /\ SliderChosen) =>
        /\ number_of_found_results =
              Cardinality(FilteredRows(slider_price_min, slider_price_max))
        /\ called[1] =
              RendererOfCount(Cardinality(FilteredRows(slider_price_min, slider_price_max)))

\* C1 (amended): the count main() dispatches on is the number of rows with the
\* selected availability and stars, the renderer is the one of that
\* cardinality's bucket, and with the slider on the full range of the pair
\* this is also the cardinality of the three-predicate set.
C1_CountIsPairCount ==
    /\ number_of_found_results # None =>
          number_of_found_results = Cardinality(PairRows)
    /\ called # <<>> => called[1] = RendererOfCount(Cardinality(PairRows))
    /\ (called # <<>> /\ SliderChosen /\ slider_price_min = price_lower_bound
          /\ slider_price_max = price_upper_bound) =>
          number_of_found_results =
              Cardinality(FilteredRows(slider_price_min, slider_price_max))

\* C1 witness: a MANY run whose selected range leaves fewer rows than counted
C1_Witness ==
    /\ called = <<"render_results_gte_2">>
    /\ SliderChosen
    /\ Cardinality(FilteredRows(slider_price_min, slider_price_max)) < 2
    /\ number_of_found_results >= 2

\* C2: once the count is returned and the dispatch has run, exactly one
\* renderer has been invoked, the one of the count (0, 1, >= 2); never more
\* than one per run; and a run with the selection of the previous run picks
\* the renderer the previous run picked.
C2_DispatchTotal ==
    /\ Len(called) <= 1
    /\ (number_of_found_results # None /\ pc # "dispatch") =>
          called = <<RendererOfCount(number_of_found_results)>>
    /\ (called # <<>> /\ prev.availability = availability /\ prev.stars = stars) =>
          called[1] = prev.renderer

\* C2 witness: a count above 2 dispatched, after a run with the same selection
C2_Witness ==
    /\ number_of_found_results >= 3
    /\ called = <<"render_results_gte_2">>
    /\ prev.availability = availability /\ prev.stars = stars

\* C3 (as claimed): when the slider raises, the error is logged and shown and
\* no exception leaves select_price_range_slider or render_results_gte_2.
C3_SliderErrorHandled ==
    Raised("st.slider") =>
        /\ "slider_except" \in Range(log)
        /\ OnPage("invalid_price_range_error")
        /\ ~Raised("select_price_range_slider")
        /\ exc = "none"

\* C4 (as claimed): a run in which the count query or a renderer failed ends
\* with the failure logged and shown by the handler of the __main__ block.
C4_FailureReachesTopLevel ==
    (pc = "done" /\ (Raised("count") \/ Raised("render_single_result")
                       \/ Raised("render_results_gte_2"))) =>
        /\ "top_level_except" \in Range(log)
        /\ OnPage("top_level_error")

\* C5: when the selected pair matches no row and the count has been
\* dispatched, the run is in the EMPTY branch: render_null_result is the
\* renderer, the count query is the last query of the run, no price range or
\* slider value exists, and the only thing put on the page after the filters
\* is the notice (and, at the end, the running time).
C5_EmptyBranchQueriesNothing ==
    (number_of_found_results # None /\ pc # "dispatch" /\ PairRows = {}) =>
        /\ called = <<"render_null_result">>
        /\ queries[Len(queries)].q = "count"
        /\ \A i \in 1..Len(queries) :
              queries[i].q \notin {"price_range", "matched", "avg", "single"}
        /\ price_lower_bound = Unbound /\ price_upper_bound = Unbound
        /\ ~SliderChosen
        /\ Range(page) \subseteq {"title", "expander", "filters",
                                  "no_matching_results", "running_time"}
        /\ pc \in {"with_exit", "main_return", "done"} =>
              Cardinality({i \in 1..Len(page) : page[i] = "no_matching_results"}) = 1

\* C5 witness: a finished run over a pair without rows
C5_Witness ==
    /\ pc = "done"
    /\ PairRows = {}
    /\ called = <<"render_null_result">>
    /\ OnPage("no_matching_results")

\* C6: the average shown in the MANY branch is the mean of price over the rows
\* satisfying all three predicates, to the nearest hundredth, whatever the
\* display quantity (no value where no row is in the range).
C6_AverageOverFilteredRows ==
    avg_price # Unbound =>
        LET M == FilteredRows(slider_price_min, slider_price_max)
            n == Cardinality(M)
            d == n * avg_price - TotalPrice(M)
        IN  IF M = {} THEN avg_price = None
            ELSE avg_price >= 0 /\ 2 * (IF d >= 0 THEN d ELSE 0 - d) <= n

\* C6 witness: an average over a proper part of the pair's rows, shown with a
\* display quantity below the matched count
C6_Witness ==
    /\ avg_price >= 0
    /\ selected_quantity = "1"
    /\ Len(matched_results) >= 2
    /\ Len(matched_results) < number_of_found_results

\* C7 (as claimed): a finished run, nothing but the slider having failed, over
\* a pair whose rows all have one price renders its branch: the single row, or
\* for two or more rows the table, the count, the average and the histogram.
C7_DegenerateRangeRenders ==
    (pc = "done" /\ NoOutsideFailure /\ number_of_found_results # None
       /\ PairRows # {}
       /\ \A i, j \in PairRows : table[i].price = table[j].price) =>
        /\ Cardinality(PairRows) = 1 =>
              /\ OnPage("single_table")
              /\ Len(displayed) = 1 /\ displayed[1].row \in PairRows
        /\ Cardinality(PairRows) >= 2 =>
              /\ OnPage("count_header") /\ OnPage("results_table")
              /\ OnPage("avg_metric") /\ OnPage("histogram")
              /\ Range(matched_results) = PairRows

\* C8: at most one connection is open, only inside the with block, and none
\* once the block is left, on the normal and on every error path.
C8_ConnectionReleased ==
    /\ open_cons \in {0, 1}
    /\ pc \in {"idle", "connect", "main_except", "main_return", "top_level", "done"} =>
          open_cons = 0
    /\ pc \notin {"idle", "connect", "main_except", "main_return", "top_level", "done"} =>
          open_cons = 1

\* C8 witness: a finished run whose renderer raised after the count succeeded,
\* the connection closed
C8_Witness ==
    /\ pc = "done"
    /\ Raised("render_results_gte_2")
    /\ number_of_found_results >= 2
    /\ open_cons = 0

\* C9: in the MANY branch the table shows min(quantity, matched count) rows,
\* quantity being the value of the selected option; they are the first rows of
\* the matched set, in table order, with indices 1, 2, ...
C9_DisplayedRows ==
    selected_quantity # "unset" =>
        LET q == CASE selected_quantity = "All" -> Len(matched_results)
                   [] selected_quantity = "1" -> 1
                   [] selected_quantity = "5" -> 5
                   [] selected_quantity = "10" -> 10
                   [] selected_quantity = "None" -> 0
        IN  /\ quantity = q
            /\ Len(displayed) = Min(q, Len(matched_results))
            /\ \A k \in 1..Len(displayed) :
                  /\ displayed[k].index = k
                  /\ displayed[k].row = matched_results[k]
            /\ Range(matched_results) = FilteredRows(slider_price_min, slider_price_max)
            /\ \A k \in 1..(Len(matched_results) - 1) :
                  matched_results[k] < matched_results[k + 1]

\* C9 witness: option 10 over more than ten matched rows
C9_Witness ==
    /\ selected_quantity = "10"
    /\ Len(matched_results) > 10
    /\ Len(displayed) = 10

\* C10: the result-set query and the average query are executed only with
\* defined bounds price_min <= price_max; when the slider failed the error is
\* on the page and neither query is executed.
C10_QueriesOnlyWithValidRange ==
    /\ \A i \in 1..Len(queries) :
          queries[i].q \in {"matched", "avg"} =>
              /\ queries[i].lo >= 0 /\ queries[i].hi >= 0
              /\ queries[i].lo <= queries[i].hi
    /\ Raised("st.slider") =>
          /\ OnPage("invalid_price_range_error")
          /\ \A i \in 1..Len(queries) : queries[i].q \notin {"matched", "avg"}

\* C10 witness: a finished run whose slider failed
C10_Witness ==
    /\ pc = "done"
    /\ Raised("st.slider")
    /\ OnPage("invalid_price_range_error")
    /\ price_lower_bound = price_upper_bound
====
